---- MODULE Spec2Model ----
(***************************************************************************)
(* A model of emoatlas' EmoScores (src/emoatlas/emolib.py): the scorer's   *)
(* per-instance state (mode, lexicon, baseline, null-sample cache), the    *)
(* restriction of a formamentis network to a target word, and the export / *)
(* import of a flat network to and from a text file.                       *)
(*                                                                         *)
(* The helpers of emoatlas.baselines and emoatlas.emo_scores that emolib   *)
(* calls (_make_baseline, _load_lookup_table, _zscores, _load_dictionary)  *)
(* are not part of src/; they are modelled after spec.md (4.3, 4.4, 6).    *)
(***************************************************************************)
EXTENDS Integers, Sequences, FiniteSets, TLC

\* ------------------------------------------------------------------ bounds
\* Longest vertex string of an exported network, and its largest edge count.
MaxWordLen == 2
MaxExportEdges == 2
\* Longest file handed to import_formamentis.
MaxFileLen == 7
\* Largest number of edges of a flat network; a multiplex network holds one
\* edge less, over all its kinds.
MaxEdges == 4
\* Largest word count (sample size n) of a scored object.
MaxN == 2
\* Number of threads sharing one EmoScores instance in the concurrent specs.
NThreads == 2

Sizes == 1..MaxN
Threads == 1..NThreads
\* Identities of the dict objects bound to self._lookup over time: the current
\* one, one kept alive by each thread that still holds a reference, one fresh.
DictIds == 0..(NThreads + 1)

\* ------------------------------------------------------------- value space
None == "None"
TAGGER == "spacy"
STEMMER == "stemmer"

\* Argument values of set_stemming_lemmatization.
ModeArgs == {"lemmatization", "stemming"}

\* Baseline arguments (docstring: a list of lists, a text, or None):
\*   None  no baseline
\*   "T1"  a text holding words of the lexicon
\*   "T0"  a text none of whose words is in the lexicon (empty distribution)
\*   "L1"  a precomputed, non-empty list of lists
BaselineArgs == {None, "T1", "T0", "L1"}
\* Per-call baselines of zscores: a per-call baseline with an empty
\* distribution leaves nothing to resample and is not modelled.
ZBaselineArgs == {None, "T1", "L1"}

\* _load_dictionary / _load_idiomatic_tokens: the lexicon variant of a mode.
\* Each is represented by the mode it was loaded for.
LoadDictionary(stem_or_lem_arg) == stem_or_lem_arg
LoadIdiomaticTokens(stem_or_lem_arg) == stem_or_lem_arg

\* The falsy baseline: an empty distribution.
EmptyBaseline == [kind |-> "empty", arg |-> None, lex |-> None, tagger |-> None, idio |-> None]

\* bsl._make_baseline (spec 4.3): no input -> the whole lexicon aggregated;
\* a text -> the text scored with the given lexicon, tagger and idiomatic
\* tokens; a precomputed distribution -> used as is.
MakeBaseline(b, lexicon, tagger, idio) ==
  CASE b = None -> [kind |-> "lexicon", arg |-> None, lex |-> lexicon, tagger |-> None, idio |-> None]
    [] b = "T1" -> [kind |-> "text", arg |-> b, lex |-> lexicon, tagger |-> tagger, idio |-> idio]
    [] b = "T0" -> EmptyBaseline
    [] OTHER    -> [kind |-> "list", arg |-> b, lex |-> None, tagger |-> None, idio |-> None]

\* Python truthiness of a baseline argument / of a baseline value.
TruthyArg(b) == b # None
TruthyBaseline(x) == x # EmptyBaseline

\* A cache slot: NoEntry, or the (mean, stddev) pair, represented by the
\* baseline it was resampled from.
NoEntry == [kind |-> "absent", arg |-> None, lex |-> None, tagger |-> None, idio |-> None]
EmptyDict == [n \in Sizes |-> NoEntry]
\* Resampling statistics for sample size n against a baseline (spec 4.4 step 2).
Resample(base, n) == base

\* ------------------------------------------------------------------- state
VARIABLES
  \* EmoScores fields
  stem_or_lem,        \* self._stem_or_lem
  stemmer,            \* self._stemmer: None or the loaded stemmer
  emotion_lexicon,    \* self._emotion_lexicon
  idiomatic_tokens,   \* self._idiomatic_tokens
  baseline,           \* self._baseline
  lookup,             \* self._lookup: the identity of the dict it is bound to
  heap,               \* the content of every dict object
  \* the last completed call of the single-threaded caller and what it saw;
  \* cached: for set_baseline, the sample sizes cached when it was called, and
  \* for a zscores call that directly follows a set_baseline, the same set
  last,
  \* threads of the concurrent specifications: program point and locals;
  \* everOverlap: a set_baseline call and a zscores call have overlapped in
  \* time; seen: what returned zscores calls have been observed to do
  pc, loc, everOverlap, seen,
  \* extract_word_from_formamentis: the network and target word it is given,
  \* its result, and the result of restricting that result again
  fmn, target_word, fmnt, fmnt2,
  \* export_formamentis / import_formamentis: the filename and path arguments
  \* of the export, the file on disk, and what the import of it returned
  filename, path, file, imported

scorerVars == <<stem_or_lem, stemmer, emotion_lexicon, idiomatic_tokens, baseline, lookup, heap>>
threadVars == <<pc, loc, everOverlap, seen>>
netVars == <<fmn, target_word, fmnt, fmnt2>>
ioVars == <<filename, path, file, imported>>
utilVars == <<netVars, ioVars>>

\* self._tagger if self._stem_or_lem == "lemmatization" else self._stemmer
SelectModel(mode, stm) == IF mode = "lemmatization" THEN TAGGER ELSE stm

\* The dict self._lookup is bound to.
Cache == heap[lookup]
Cached(d) == {n \in Sizes : d[n] # NoEntry}

\* An entry is valid when it holds the statistics of the instance's current
\* baseline for its sample size.
ValidEntry(d, n) == d[n] = Resample(baseline, n)

NoCall == [op |-> "init", n |-> 0, arg |-> None, model |-> None,
           base |-> NoEntry, stats |-> NoEntry, hit |-> FALSE, cached |-> {}]
IdleLoc == [n |-> 0, arg |-> None, model |-> None, base |-> NoEntry, ref |-> 0,
            stats |-> NoEntry, hit |-> FALSE]

ThreadsIdle ==
  /\ pc = [t \in Threads |-> "idle"]
  /\ loc = [t \in Threads |-> IdleLoc]
  /\ everOverlap = FALSE
  /\ seen = {}

\* __init__: lemmatization mode, no stemmer, the default baseline of the
\* lexicon, and the language's precomputed lookup table (_load_lookup_table):
\* statistics of the default baseline for some sample sizes.
Constructed ==
  /\ emotion_lexicon = LoadDictionary("lemmatization")
  /\ stemmer = None
  /\ stem_or_lem = "lemmatization"
  /\ idiomatic_tokens = LoadIdiomaticTokens("lemmatization")
  /\ baseline = MakeBaseline(None, emotion_lexicon, None, None)
  /\ lookup = 0
  /\ \E pre \in SUBSET Sizes :
       heap = [d \in DictIds |->
                 IF d = 0 THEN [n \in Sizes |-> IF n \in pre THEN Resample(baseline, n) ELSE NoEntry]
                 ELSE EmptyDict]

\* No network has been handed to the utilities.
NoNetwork == [multiplex |-> FALSE, edges |-> <<>>, vertices |-> {}, set |-> FALSE]
NoFile == [written |-> FALSE, filepath |-> <<>>, content |-> <<>>]
NotImported == [done |-> FALSE, raised |-> FALSE, multiplex |-> FALSE, edges |-> <<>>, vertices |-> <<>>]
NetIdle == fmn = NoNetwork /\ target_word = None /\ fmnt = NoNetwork /\ fmnt2 = NoNetwork
IOIdle == filename = <<>> /\ path = <<>> /\ file = NoFile /\ imported = NotImported
UtilsIdle == NetIdle /\ IOIdle

\* The scorer of the specifications of the network utilities: constructed,
\* never called.
ScorerAtRest ==
  /\ Constructed /\ Cached(Cache) = {}
  /\ last = NoCall
  /\ ThreadsIdle

Init ==
  /\ Constructed
  /\ last = NoCall
  /\ ThreadsIdle
  /\ UtilsIdle

\* ------------------------------------------------- dict objects (references)
\* Program points of zscores at which a thread holds a reference to a dict.
RefPcs == {"zs_lookup", "zs_store", "z_return"}
HeldRefs == {loc[t].ref : t \in {u \in Threads : pc[u] \in RefPcs}}
\* A new dict object: distinct from every object still referenced.
FreshId == CHOOSE d \in DictIds : d # lookup /\ d \notin HeldRefs

\* A set_baseline that keeps the cached statistics.
SetBaselineLookup_Kept == heap[lookup]

\* self._lookup = {} (set_baseline): the content of the dict bound anew.
SetBaselineLookup == EmptyDict

\* Rebinding self._lookup to a new dict; the old dict lives on only while a
\* running call still holds it.
RebindLookup(content) ==
  /\ lookup' = FreshId
  /\ heap' = [d \in DictIds |->
               IF d = FreshId THEN content
               ELSE IF d \in HeldRefs THEN heap[d] ELSE EmptyDict]

\* es._zscores, spec 4.4 step 2: reuse the entry for n when the cache has
\* one, otherwise resample the baseline and store the result under n.
ZsHit(d, n) == d[n] # NoEntry
ZsStats(d, n, base) == IF ZsHit(d, n) THEN d[n] ELSE Resample(base, n)
ZsStore(d, n, base) == [d EXCEPT ![n] = Resample(base, n)]

\* ------------------------------------------- single-threaded public calls
Call(op) == [NoCall EXCEPT !.op = op]

\* set_stemming_lemmatization(stem_or_lem)
SetStemmingLemmatization(m) ==
  /\ emotion_lexicon' = LoadDictionary(m)
  /\ idiomatic_tokens' = LoadIdiomaticTokens(m)
  /\ stem_or_lem' = m
  /\ stemmer' = IF m = "stemming" /\ stemmer = None THEN STEMMER ELSE stemmer
  /\ last' = [Call("set_stemming_lemmatization") EXCEPT !.arg = m]
  /\ UNCHANGED <<utilVars, baseline, lookup, heap, threadVars>>

\* set_baseline(baseline)
SetBaseline(b) ==
  /\ baseline' = MakeBaseline(b, emotion_lexicon, TAGGER, idiomatic_tokens)
  /\ RebindLookup(SetBaselineLookup)
  /\ last' = [Call("set_baseline") EXCEPT !.arg = b, !.cached = Cached(Cache)]
  /\ UNCHANGED <<utilVars, stem_or_lem, stemmer, emotion_lexicon, idiomatic_tokens, threadVars>>

\* emotions(obj): n is the word count of obj
Emotions(n) ==
  /\ last' = [Call("emotions") EXCEPT !.n = n, !.model = SelectModel(stem_or_lem, stemmer)]
  /\ UNCHANGED <<utilVars, scorerVars, threadVars>>

\* A zscores that installs its per-call baseline as the instance baseline.
ZInstanceBaseline_PerCall(b, model) ==
  IF TruthyArg(b) THEN MakeBaseline(b, emotion_lexicon, model, None)
  ELSE IF ~TruthyBaseline(baseline) THEN MakeBaseline(None, emotion_lexicon, model, None)
  ELSE baseline

\* The instance baseline after lines 184-192 of zscores, given the argument.
ZInstanceBaseline(b, model) ==
  IF ~TruthyArg(b) /\ ~TruthyBaseline(baseline)
  THEN MakeBaseline(None, emotion_lexicon, model, None)
  ELSE baseline

\* The baseline zscores hands to es._zscores (lines 184-199).
ZCallBaseline(b, model) ==
  IF ~TruthyArg(b)
  THEN ZInstanceBaseline(b, model)
  ELSE MakeBaseline(b, emotion_lexicon, model, None)

\* The dict zscores hands to es._zscores (line 209).
ZCallLookup == lookup

\* zscores(obj, baseline): n is the word count of obj
Zscores(n, b) ==
  LET model == SelectModel(stem_or_lem, stemmer)
      used == ZCallBaseline(b, model)
      d == heap[ZCallLookup]
  IN /\ baseline' = ZInstanceBaseline(b, model)
     /\ heap' = IF ZsHit(d, n) THEN heap ELSE [heap EXCEPT ![ZCallLookup] = ZsStore(d, n, used)]
     /\ last' = [Call("zscores") EXCEPT !.n = n, !.arg = b, !.model = model, !.base = used,
                    !.stats = ZsStats(d, n, used), !.hit = ZsHit(d, n),
                    !.cached = IF last.op = "set_baseline" THEN last.cached ELSE {}]
     /\ UNCHANGED <<utilVars, stem_or_lem, stemmer, emotion_lexicon, idiomatic_tokens, lookup, threadVars>>

Next ==
  \/ \E m \in ModeArgs : SetStemmingLemmatization(m)
  \/ \E b \in BaselineArgs : SetBaseline(b)
  \/ \E n \in Sizes : Emotions(n)
  \/ \E n \in Sizes, b \in ZBaselineArgs : Zscores(n, b)

vars == <<scorerVars, last, threadVars, utilVars>>

Spec == Init /\ [][Next]_vars

\* ------------------------------------------------ calls as separate steps
\* The same calls from several threads on one instance, one step for each
\* read or write of an instance field (the interpreter may switch threads
\* between any two of them).
ZPcs == {"z185", "z186", "z192", "z194", "z201", "zs_lookup", "zs_store", "z_return"}
SBPcs == {"sb98"}

Goto(t, label) == pc' = [pc EXCEPT ![t] = label]
SetLoc(t, l) == loc' = [loc EXCEPT ![t] = l]

\* zscores is entered; line 182: model = ...; line 184: if not baseline
ZCall(t, n, b) ==
  /\ pc[t] = "idle"
  /\ Goto(t, IF TruthyArg(b) THEN "z194" ELSE "z185")
  /\ SetLoc(t, [IdleLoc EXCEPT !.n = n, !.arg = b, !.model = SelectModel(stem_or_lem, stemmer)])
  /\ everOverlap' = (everOverlap \/ \E u \in Threads \ {t} : pc[u] \in SBPcs)
  /\ UNCHANGED <<utilVars, scorerVars, last, seen>>

\* lines 185-191: if not self._baseline: self._baseline = _make_baseline(...),
\* the test and the assignment being two steps
Z185(t) ==
  /\ pc[t] \in {"z185", "z186"}
  /\ IF pc[t] = "z185"
     THEN /\ Goto(t, IF TruthyBaseline(baseline) THEN "z192" ELSE "z186")
          /\ UNCHANGED baseline
     ELSE /\ baseline' = MakeBaseline(None, emotion_lexicon, loc[t].model, None)
          /\ Goto(t, "z192")
  /\ UNCHANGED <<utilVars, stem_or_lem, stemmer, emotion_lexicon, idiomatic_tokens, lookup, heap,
                 last, loc, everOverlap, seen>>

\* line 192: baseline = self._baseline
Z192(t) ==
  /\ pc[t] = "z192"
  /\ SetLoc(t, [loc[t] EXCEPT !.base = baseline])
  /\ Goto(t, "z201")
  /\ UNCHANGED <<utilVars, scorerVars, last, everOverlap, seen>>

\* lines 194-199: baseline = _make_baseline(baseline, ...)
Z194(t) ==
  /\ pc[t] = "z194"
  /\ SetLoc(t, [loc[t] EXCEPT !.base = MakeBaseline(loc[t].arg, emotion_lexicon, loc[t].model, None)])
  /\ Goto(t, "z201")
  /\ UNCHANGED <<utilVars, scorerVars, last, everOverlap, seen>>

\* lines 201-213: the arguments of es._zscores are evaluated, lookup=self._lookup
Z201(t) ==
  /\ pc[t] = "z201"
  /\ SetLoc(t, [loc[t] EXCEPT !.ref = ZCallLookup])
  /\ Goto(t, "zs_lookup")
  /\ UNCHANGED <<utilVars, scorerVars, last, everOverlap, seen>>

\* es._zscores: is n in the dict it was handed?
ZsLookup(t) ==
  /\ pc[t] = "zs_lookup"
  /\ LET d == heap[loc[t].ref]
     IN IF ZsHit(d, loc[t].n)
        THEN /\ SetLoc(t, [loc[t] EXCEPT !.stats = d[loc[t].n], !.hit = TRUE])
             /\ Goto(t, "z_return")
        ELSE /\ Goto(t, "zs_store")
             /\ UNCHANGED loc
  /\ UNCHANGED <<utilVars, scorerVars, last, everOverlap, seen>>

\* es._zscores: the baseline is resampled and the result stored under n
ZsMiss(t) ==
  /\ pc[t] = "zs_store"
  /\ heap' = [heap EXCEPT ![loc[t].ref] = ZsStore(@, loc[t].n, loc[t].base)]
  /\ SetLoc(t, [loc[t] EXCEPT !.stats = Resample(loc[t].base, loc[t].n)])
  /\ Goto(t, "z_return")
  /\ UNCHANGED <<utilVars, stem_or_lem, stemmer, emotion_lexicon, idiomatic_tokens, baseline, lookup,
                 last, everOverlap, seen>>

\* What a zscores call about to return has done: reused an entry that is not
\* the statistics of the baseline it scores against, or left in the
\* instance's cache an entry that is not of the instance's baseline.
StaleReuse(t) == loc[t].hit /\ loc[t].stats # Resample(loc[t].base, loc[t].n)
StaleStore(t) ==
  /\ ~loc[t].hit /\ loc[t].ref = lookup
  /\ heap[lookup][loc[t].n] = loc[t].stats
  /\ loc[t].stats # Resample(baseline, loc[t].n)
Observed(t) ==
  (IF StaleReuse(t) THEN {"stale_reuse"} ELSE {}) \cup (IF StaleStore(t) THEN {"stale_store"} ELSE {})

\* zscores returns; a dict nothing refers to any more is dropped
ZReturn(t) ==
  /\ pc[t] = "z_return"
  /\ seen' = seen \cup Observed(t)
  /\ Goto(t, "idle")
  /\ SetLoc(t, IdleLoc)
  /\ LET held == {lookup} \cup {loc[u].ref : u \in {v \in Threads \ {t} : pc[v] \in RefPcs}}
     IN heap' = [d \in DictIds |-> IF d \in held THEN heap[d] ELSE EmptyDict]
  /\ UNCHANGED <<utilVars, stem_or_lem, stemmer, emotion_lexicon, idiomatic_tokens, baseline, lookup,
                 last, everOverlap>>

\* set_baseline is entered; lines 91-97: self._baseline = bsl._make_baseline(...)
SBCall(t, b) ==
  /\ pc[t] = "idle"
  /\ baseline' = MakeBaseline(b, emotion_lexicon, TAGGER, idiomatic_tokens)
  /\ Goto(t, "sb98")
  /\ everOverlap' = (everOverlap \/ \E u \in Threads \ {t} : pc[u] \in ZPcs)
  /\ UNCHANGED <<utilVars, stem_or_lem, stemmer, emotion_lexicon, idiomatic_tokens, lookup, heap,
                 last, loc, seen>>

\* line 98: self._lookup = {}
SB98(t) ==
  /\ pc[t] = "sb98"
  /\ RebindLookup(SetBaselineLookup)
  /\ Goto(t, "idle")
  /\ SetLoc(t, IdleLoc)
  /\ UNCHANGED <<utilVars, stem_or_lem, stemmer, emotion_lexicon, idiomatic_tokens, baseline,
                 last, everOverlap, seen>>

\* emotions(obj) is entered
ECall(t, n) ==
  /\ pc[t] = "idle"
  /\ Goto(t, "e136")
  /\ SetLoc(t, [IdleLoc EXCEPT !.n = n])
  /\ UNCHANGED <<utilVars, scorerVars, last, everOverlap, seen>>

\* lines 136-149: the mode and the model are read, nothing is written
E136(t) ==
  /\ pc[t] = "e136"
  /\ Goto(t, "idle")
  /\ SetLoc(t, IdleLoc)
  /\ UNCHANGED <<utilVars, scorerVars, last, everOverlap, seen>>

\* set_baseline running concurrently with zscores (no per-call baseline):
\* one thread calls set_baseline while another calls zscores.
Role == [mutator |-> 1, scorer |-> 2]

NextConc ==
  \/ \E n \in Sizes : ZCall(Role.scorer, n, None)
  \/ Z185(Role.scorer)
  \/ Z192(Role.scorer)
  \/ Z201(Role.scorer)
  \/ ZsLookup(Role.scorer)
  \/ ZsMiss(Role.scorer)
  \/ ZReturn(Role.scorer)
  \/ \E b \in BaselineArgs : SBCall(Role.mutator, b)
  \/ SB98(Role.mutator)

SpecConc == Init /\ [][NextConc]_vars

\* Read-only use: only emotions and zscores are called, from several threads.
NextRO ==
  \E t \in Threads :
    \/ \E n \in Sizes : ECall(t, n)
    \/ E136(t)
    \/ \E n \in Sizes, b \in ZBaselineArgs : ZCall(t, n, b)
    \/ Z185(t)
    \/ Z192(t)
    \/ Z194(t)
    \/ Z201(t)
    \/ ZsLookup(t)
    \/ ZsMiss(t)
    \/ ZReturn(t)

SpecRO == Init /\ [][NextRO]_vars

\* ------------------------------------------- extract_word_from_formamentis
\* Vertices of the networks handed to it.
Words == {"t", "a", "b", "c"}
\* Target words: a word of the networks (every edge list over Words is
\* enumerated, so one word stands for each of them) and a word of no network.
Targets == {"t", "z"}
\* Edges: pairs of distinct words (no self-loops).
Pairs == {e \in Words \X Words : e[1] # e[2]}
Kinds == {"syntactic", "synonyms"}

\* set(itertools.chain(*edgelist)): the endpoints of a list of edges
Chain_FirstOnly(edgelist) == {edgelist[i][1] : i \in DOMAIN edgelist}
Chain(edgelist) == UNION {{edgelist[i][1], edgelist[i][2]} : i \in DOMAIN edgelist}

\* A network as a FormamentisNetwork(edges, vertices) namedtuple; multiplex
\* says whether edges is a dict (kind -> list) or a list; set marks a value
\* that holds a network.
FlatNetwork(edges) ==
  [multiplex |-> FALSE, edges |-> edges, vertices |-> Chain(edges), set |-> TRUE]
MultiplexNetwork(edges) ==
  [multiplex |-> TRUE, edges |-> edges,
   vertices |-> UNION {Chain(edges[k]) : k \in DOMAIN edges}, set |-> TRUE]

\* target_word in edge
TargetIn(target, edge) == edge[1] = target \/ edge[2] = target

\* A selection that takes every edge for an edge of the target.
IncidentEdges_All(edges, target) == edges

\* [edge for edge in edges if target_word in edge]
IncidentEdges(edges, target) ==
  LET Test(edge) == TargetIn(target, edge) IN SelectSeq(edges, Test)

\* [edge for edge in edges if (edge[0] in final_vertex) and (edge[1] in final_vertex)]
ClosedEdges_Either(edges, final_vertex) ==
  LET Test(edge) == edge[1] \in final_vertex \/ edge[2] \in final_vertex
  IN SelectSeq(edges, Test)
ClosedEdges(edges, final_vertex) ==
  LET Test(edge) == edge[1] \in final_vertex /\ edge[2] \in final_vertex
  IN SelectSeq(edges, Test)

\* lines 390-403: edges is a list
ExtractFlat(edges, target) ==
  LET new_edgelist == IncidentEdges(edges, target)
      final_vertex == Chain(new_edgelist)
      final_edgelist == ClosedEdges(edges, final_vertex)
  IN [multiplex |-> FALSE, edges |-> final_edgelist, vertices |-> final_vertex, set |-> TRUE]

\* A restriction of a dict that closes each kind over its own neighbours only.
ExtractMultiplex_PerKind(edges, target) ==
  LET edge_types == DOMAIN edges
      final_vertex == UNION {Chain(IncidentEdges(edges[edge_type], target)) : edge_type \in edge_types}
      final_edgelist == [edge_type \in edge_types |->
                           ClosedEdges(edges[edge_type], Chain(IncidentEdges(edges[edge_type], target)))]
  IN [multiplex |-> TRUE, edges |-> final_edgelist, vertices |-> final_vertex, set |-> TRUE]

\* lines 404-426: edges is a dict
ExtractMultiplex(edges, target) ==
  LET edge_types == DOMAIN edges
      final_vertex == UNION {Chain(IncidentEdges(edges[edge_type], target)) : edge_type \in edge_types}
      final_edgelist == [edge_type \in edge_types |-> ClosedEdges(edges[edge_type], final_vertex)]
  IN [multiplex |-> TRUE, edges |-> final_edgelist, vertices |-> final_vertex, set |-> TRUE]

ExtractWordFromFormamentis(network, target) ==
  IF ~network.multiplex
  THEN ExtractFlat(network.edges, target)
  ELSE ExtractMultiplex(network.edges, target)

\* The lengths of the edge lists of a dict, kind by kind.
LenOf(lens, k) == IF k \in DOMAIN lens THEN lens[k] ELSE 0
SumLens(lens) == LenOf(lens, "syntactic") + LenOf(lens, "synonyms")

\* Every flat network of at most MaxEdges edges and every multiplex network,
\* with any of the kinds as keys, of at most MaxEdges - 1 edges.
InitNet ==
  /\ ScorerAtRest
  /\ \/ \E len \in 0..MaxEdges : \E q \in [1..len -> Pairs] : fmn = FlatNetwork(q)
     \/ \E K \in SUBSET Kinds : \E lens \in [K -> 0..(MaxEdges - 1)] :
          /\ SumLens(lens) <= MaxEdges - 1
          /\ \E syntactic \in [1..LenOf(lens, "syntactic") -> Pairs] :
             \E synonyms \in [1..LenOf(lens, "synonyms") -> Pairs] :
               fmn = MultiplexNetwork([k \in K |-> IF k = "syntactic" THEN syntactic ELSE synonyms])
  /\ target_word \in Targets
  /\ fmnt = NoNetwork
  /\ fmnt2 = NoNetwork
  /\ IOIdle

\* fmnt = extract_word_from_formamentis(fmn, target_word)
Extract ==
  /\ ~fmnt.set
  /\ fmnt' = ExtractWordFromFormamentis(fmn, target_word)
  /\ UNCHANGED <<scorerVars, last, threadVars, ioVars, fmn, target_word, fmnt2>>

\* fmnt2 = extract_word_from_formamentis(fmnt, target_word)
ExtractAgain ==
  /\ fmnt.set /\ ~fmnt2.set
  /\ fmnt2' = ExtractWordFromFormamentis(fmnt, target_word)
  /\ UNCHANGED <<scorerVars, last, threadVars, ioVars, fmn, target_word, fmnt>>

NextNet == Extract \/ ExtractAgain

SpecNet == InitNet /\ [][NextNet]_vars

\* -------------------------------------------------------- claims, SpecNet
\* The edge lists of a network by kind; a flat network has the one list.
EdgeLists(network) ==
  IF network.multiplex THEN network.edges ELSE [k \in {"flat"} |-> network.edges]

\* The endpoints of every input edge, of any kind, that contains the target.
TargetNeighbourhood(network, target) ==
  LET lists == EdgeLists(network)
  IN {v \in Words : \E k \in DOMAIN lists : \E i \in DOMAIN lists[k] :
         /\ target \in {lists[k][i][1], lists[k][i][2]}
         /\ v \in {lists[k][i][1], lists[k][i][2]}}

\* out holds exactly the elements of inp at the positions in keep, in order.
IsSublistAt(out, inp, keep) ==
  /\ Len(out) = Cardinality(keep)
  /\ \A j \in DOMAIN out :
       \E i \in keep : Cardinality({m \in keep : m <= i}) = j /\ out[j] = inp[i]

\* C3: the result's vertex set is the union of the endpoints of the input
\* edges (of all kinds) that contain the target word; its edges are, kind by
\* kind and in the original order, exactly the input edges with both
\* endpoints in that vertex set.
C3_DepthOneClosure ==
  fmnt.set =>
    LET V == TargetNeighbourhood(fmn, target_word)
        inp == EdgeLists(fmn)
        out == EdgeLists(fmnt)
    IN /\ fmnt.multiplex = fmn.multiplex
       /\ fmnt.vertices = V
       /\ DOMAIN out = DOMAIN inp
       /\ \A k \in DOMAIN inp :
            IsSublistAt(out[k], inp[k],
                        {i \in DOMAIN inp[k] : inp[k][i][1] \in V /\ inp[k][i][2] \in V})

\* C3 witness: a restriction that keeps an edge that does not contain the
\* target (both its endpoints are neighbours of the target) and drops an edge
\* that leads from a neighbour out of the neighbourhood.
C3_Witness ==
  /\ fmnt.set /\ ~fmn.multiplex
  /\ \E i \in DOMAIN fmnt.edges : ~TargetIn(target_word, fmnt.edges[i])
  /\ \E i \in DOMAIN fmn.edges :
       /\ fmn.edges[i][1] \in fmnt.vertices
       /\ fmn.edges[i][2] \notin fmnt.vertices

\* C4: restricting an already restricted network to the same target word
\* returns the same edges (same order, same kinds) and the same vertex set.
C4_Idempotent ==
  fmnt2.set =>
    /\ fmnt2.multiplex = fmnt.multiplex
    /\ fmnt2.edges = fmnt.edges
    /\ fmnt2.vertices = fmnt.vertices

\* C4 witness: a restriction that dropped edges and kept some, restricted
\* again.
C4_Witness ==
  /\ fmnt2.set /\ fmn.multiplex /\ DOMAIN fmn.edges = Kinds
  /\ \A k \in Kinds : fmnt.edges[k] # <<>>
  /\ \E k \in Kinds : Len(fmnt.edges[k]) < Len(fmn.edges[k])

\* --------------------------------- export_formamentis / import_formamentis
\* Strings are sequences of characters.
Chars == {"a", ",", " ", "\n"}
\* Code points, for the order sorted() puts strings in.
Ord(c) == CASE c = "\n" -> 10 [] c = " " -> 32 [] c = "," -> 44 [] OTHER -> 97

DOT_TXT == <<".", "t", "x", "t">>
\* line 677: "extracted formamentis.txt"
DefaultFilename ==
  <<"e", "x", "t", "r", "a", "c", "t", "e", "d", " ",
    "f", "o", "r", "m", "a", "m", "e", "n", "t", "i", "s">> \o DOT_TXT
\* docstring, line 669: Defaults to 'extracted_formamentis.txt'
DocumentedFilename ==
  <<"e", "x", "t", "r", "a", "c", "t", "e", "d", "_",
    "f", "o", "r", "m", "a", "m", "e", "n", "t", "i", "s">> \o DOT_TXT
\* os.getcwd()
Getcwd == <<"/", "w">>
\* The absent argument (filename=None, path=None).
NoneArg == <<"N", "o", "n", "e">>

\* str.endswith
EndsWith(str, suffix) ==
  Len(str) >= Len(suffix) /\ SubSeq(str, Len(str) - Len(suffix) + 1, Len(str)) = suffix

\* lines 676-679
ExportFilename(name) ==
  IF name = NoneArg THEN DefaultFilename
  ELSE IF ~EndsWith(name, DOT_TXT) THEN name \o DOT_TXT
  ELSE name

\* lines 681-682
ExportPath(dir) == IF dir = NoneArg THEN Getcwd ELSE dir

\* os.path.join(path, filename) (posixpath)
PathJoin(dir, name) ==
  IF name # <<>> /\ name[1] = "/" THEN name
  ELSE IF dir = <<>> \/ dir[Len(dir)] = "/" THEN dir \o name
  ELSE dir \o <<"/">> \o name

\* lines 689-691: one line f"{pair[0]} , {pair[1]}\n" per edge
RECURSIVE ExportContent(_)
ExportContent(edges) ==
  IF edges = <<>> THEN <<>>
  ELSE Head(edges)[1] \o <<" ", ",", " ">> \o Head(edges)[2] \o <<"\n">> \o ExportContent(Tail(edges))

\* The first position of character c in str, 0 when there is none.
Find(str, c) ==
  IF \E i \in DOMAIN str : str[i] = c
  THEN CHOOSE i \in DOMAIN str : str[i] = c /\ \A j \in 1..(i - 1) : str[j] # c
  ELSE 0

\* for line in file: the lines, each with its line break
RECURSIVE Lines(_)
Lines(content) ==
  IF content = <<>> THEN <<>>
  ELSE LET i == Find(content, "\n")
       IN IF i = 0 THEN <<content>>
          ELSE <<SubSeq(content, 1, i)>> \o Lines(SubSeq(content, i + 1, Len(content)))

\* line.split(",")
RECURSIVE Split(_)
Split(line) ==
  LET i == Find(line, ",")
  IN IF i = 0 THEN <<line>>
     ELSE <<SubSeq(line, 1, i - 1)>> \o Split(SubSeq(line, i + 1, Len(line)))

\* str.strip
IsSpace(c) == c \in {" ", "\n"}
RECURSIVE Strip(_)
Strip(str) ==
  IF str = <<>> THEN str
  ELSE IF IsSpace(str[1]) THEN Strip(Tail(str))
  ELSE IF IsSpace(str[Len(str)]) THEN Strip(SubSeq(str, 1, Len(str) - 1))
  ELSE str

\* str < str
RECURSIVE StrLess(_, _)
StrLess(x, y) ==
  IF y = <<>> THEN FALSE
  ELSE IF x = <<>> THEN TRUE
  ELSE IF Ord(x[1]) # Ord(y[1]) THEN Ord(x[1]) < Ord(y[1])
  ELSE StrLess(Tail(x), Tail(y))

\* sorted(vertices)
RECURSIVE Sorted_Descending(_)
Sorted_Descending(S) ==
  IF S = {} THEN <<>>
  ELSE LET m == CHOOSE x \in S : \A y \in S : x = y \/ StrLess(y, x)
       IN <<m>> \o Sorted_Descending(S \ {m})
RECURSIVE Sorted(_)
Sorted(S) ==
  IF S = {} THEN <<>>
  ELSE LET m == CHOOSE x \in S : \A y \in S : x = y \/ StrLess(x, y)
       IN <<m>> \o Sorted(S \ {m})

\* lines 708-726; raised: the unpacking of line 716 raises ValueError when a
\* line does not split into exactly two parts
ImportFormamentis(content) ==
  LET lines == Lines(content)
      parts == [i \in DOMAIN lines |-> Split(lines[i])]
      edges == [i \in DOMAIN lines |-> <<Strip(parts[i][1]), Strip(parts[i][2])>>]
  IN IF \E i \in DOMAIN lines : Len(parts[i]) # 2
     THEN [NotImported EXCEPT !.done = TRUE, !.raised = TRUE]
     ELSE [done |-> TRUE, raised |-> FALSE, multiplex |-> FALSE, edges |-> edges,
           vertices |-> Sorted(Chain(edges))]

\* Vertex strings of the exported networks, filename and path arguments.
VertexStrings == UNION {[1..len -> Chars \ {"\n"}] : len \in 0..MaxWordLen}
FilenameArgs == {NoneArg, <<"f">>, <<"f">> \o DOT_TXT, DOT_TXT}
PathArgs == {NoneArg, <<"/", "d">>, <<"/", "d", "/">>}

\* A flat network over any vertex strings, not yet exported.
InitExport ==
  /\ ScorerAtRest
  /\ target_word = None /\ fmnt = NoNetwork /\ fmnt2 = NoNetwork
  /\ \E len \in 0..MaxExportEdges : \E q \in [1..len -> VertexStrings \X VertexStrings] :
       fmn = FlatNetwork(q)
  /\ IOIdle

\* export_formamentis(fmn, filename, path)
Export(name, dir) ==
  /\ fmn.set /\ ~file.written
  /\ filename' = name
  /\ path' = dir
  /\ file' = [written |-> TRUE,
              filepath |-> PathJoin(ExportPath(dir), ExportFilename(name)),
              content |-> ExportContent(fmn.edges)]
  /\ UNCHANGED <<scorerVars, last, threadVars, netVars, imported>>

\* imported = import_formamentis(file.filepath)
Import ==
  /\ file.written /\ ~imported.done
  /\ imported' = ImportFormamentis(file.content)
  /\ UNCHANGED <<scorerVars, last, threadVars, netVars, filename, path, file>>

NextExport ==
  \/ \E name \in FilenameArgs, dir \in PathArgs : Export(name, dir)
  \/ Import

SpecExport == InitExport /\ [][NextExport]_vars

\* Any file of at most MaxFileLen characters, not yet imported.
InitImport ==
  /\ ScorerAtRest
  /\ NetIdle
  /\ filename = <<>> /\ path = <<>>
  /\ \E len \in 0..MaxFileLen : \E content \in [1..len -> Chars] :
       file = [written |-> TRUE, filepath |-> <<"f">> \o DOT_TXT, content |-> content]
  /\ imported = NotImported

NextImport == Import

SpecImport == InitImport /\ [][NextImport]_vars

\* ---------------------------------------- claims, SpecExport and SpecImport
Range(seq) == {seq[i] : i \in DOMAIN seq}

\* C5: exporting a flat network and importing the written file succeeds and
\* yields the same set of edges and, as vertices, the sorted list of the
\* original vertex set.
C5_RoundTrip ==
  imported.done =>
    /\ ~imported.raised
    /\ Range(imported.edges) = Range(fmn.edges)
    /\ imported.vertices = Sorted(fmn.vertices)

\* The number of lines of a file: its line breaks, and one more when
\* characters follow the last of them.
NumLines(content) ==
  Cardinality({i \in DOMAIN content : content[i] = "\n"})
    + (IF content # <<>> /\ content[Len(content)] # "\n" THEN 1 ELSE 0)

\* Line number i of a file, its line break included.
LineOf(content, i) ==
  LET breaks == {p \in DOMAIN content : content[p] = "\n"}
      Before(p) == Cardinality({b \in breaks : b < p})
  IN [p \in {q \in DOMAIN content : Before(q) = i - 1} |-> content[p]]

\* word is raw without the whitespace around it.
Trimmed(word, raw) ==
  /\ word = <<>> \/ (~IsSpace(word[1]) /\ ~IsSpace(word[Len(word)]))
  /\ \E i \in 1..(Len(raw) + 1) :
       /\ i + Len(word) - 1 <= Len(raw)
       /\ word = SubSeq(raw, i, i + Len(word) - 1)
       /\ \A j \in DOMAIN raw : (j < i \/ j > i + Len(word) - 1) => IsSpace(raw[j])

\* C6: import_formamentis returns a flat network: its edges are a list with
\* one pair per line of the file, in file order, repeated lines kept, the
\* pair being the texts left and right of the line's comma; its vertices are
\* the sorted, duplicate-free list of all endpoints of those edges.
C6_ImportFlat ==
  (imported.done /\ ~imported.raised) =>
    /\ ~imported.multiplex
    /\ Len(imported.edges) = NumLines(file.content)
    /\ \A i \in DOMAIN imported.edges :
         LET dom == DOMAIN LineOf(file.content, i)
             first == CHOOSE p \in dom : \A q \in dom : p <= q
             last_ == CHOOSE p \in dom : \A q \in dom : q <= p
         IN \E c \in dom :
              /\ file.content[c] = ","
              /\ Trimmed(imported.edges[i][1], SubSeq(file.content, first, c - 1))
              /\ Trimmed(imported.edges[i][2], SubSeq(file.content, c + 1, last_))
    /\ Range(imported.vertices) = UNION {{e[1], e[2]} : e \in Range(imported.edges)}
    /\ \A i \in DOMAIN imported.vertices : \A j \in DOMAIN imported.vertices :
         i < j => StrLess(imported.vertices[i], imported.vertices[j])

\* C6 witness: a file of two equal lines with two different endpoints.
C6_Witness ==
  /\ imported.done /\ ~imported.raised
  /\ Len(imported.edges) = 2 /\ imported.edges[1] = imported.edges[2]
  /\ Len(imported.vertices) = 2

\* The file named name in directory dir.
InDirectory(dir, name) ==
  IF dir[Len(dir)] = "/" THEN dir \o name ELSE dir \o <<"/">> \o name

\* C10: the export writes to 'extracted_formamentis.txt' when no filename is
\* given, to the given filename when it ends in '.txt' and to the filename
\* with '.txt' appended otherwise; in the current working directory when no
\* path is given, in the given directory otherwise.
C10_DocumentedFile ==
  file.written /\ filename # <<>> =>
    file.filepath =
      InDirectory(IF path = NoneArg THEN Getcwd ELSE path,
                  IF filename = NoneArg THEN DocumentedFilename
                  ELSE IF EndsWith(filename, DOT_TXT) THEN filename
                  ELSE filename \o DOT_TXT)

\* -------------------------------------------------------- claims, SpecConc

\* C8: set_baseline running concurrently with zscores is unsafe. While no
\* set_baseline call has overlapped a zscores call, a zscores call about to
\* return has neither reused an entry foreign to the baseline it scores
\* against nor left such an entry in the instance's cache; the witness shows
\* that overlapping calls do both.
C8_MismatchOnlyByOverlap ==
  \A t \in Threads :
    (pc[t] = "z_return" /\ (StaleReuse(t) \/ StaleStore(t))) => everOverlap

\* C8 witness: one zscores call has reused a stale entry, another has stored
\* into the fresh cache an entry computed against the old baseline, which is
\* still there once every call has returned.
C8_Witness ==
  /\ seen = {"stale_reuse", "stale_store"}
  /\ \A t \in Threads : pc[t] = "idle"
  /\ \E n \in Sizes : Cache[n] # NoEntry /\ ~ValidEntry(Cache, n)

\* -------------------------------------------------------- claims, SpecRO

\* C9: under every interleaving of emotions and zscores calls, the instance
\* baseline and the mode never change, and every cache entry holds
\* statistics computed against the instance's current baseline.
C9_ReadOnlySafe ==
  /\ baseline = MakeBaseline(None, LoadDictionary("lemmatization"), None, None)
  /\ stem_or_lem = "lemmatization"
  /\ \A n \in Sizes : Cache[n] = NoEntry \/ ValidEntry(Cache, n)

\* ------------------------------------------------------------ claims, Spec

\* C1: after any set_baseline call the null-sample cache is empty, and a
\* zscores call that follows it for a sample size cached before the call does
\* not reuse an entry: it resamples the baseline it scores against, which
\* without a per-call baseline is the new instance baseline.
C1_BaselineReset ==
  /\ last.op = "set_baseline" => Cached(Cache) = {}
  /\ (last.op = "zscores" /\ last.n \in last.cached) =>
        /\ ~last.hit
        /\ last.stats = Resample(last.base, last.n)
        /\ last.arg = None => last.base = baseline
        /\ Cache[last.n] = last.stats

\* C1 witness: zscores, without a per-call baseline, right after a
\* set_baseline("L1") that dropped an entry for the same sample size.
C1_Witness ==
  /\ last.op = "zscores" /\ last.arg = None /\ last.n \in last.cached
  /\ baseline.kind = "list" /\ last.stats = baseline

\* C2: every entry of the null-sample cache is absent or holds statistics
\* computed against the instance's current baseline.
C2_NoStaleEntry == \A n \in Sizes : Cache[n] = NoEntry \/ ValidEntry(Cache, n)

\* C7: a set_stemming_lemmatization call that changes the mode leaves a
\* baseline built on the newly loaded lexicon and an empty cache.
C7_ModeChangeRebuilds ==
  [][stem_or_lem' # stem_or_lem =>
       /\ baseline'.lex \in {None, emotion_lexicon'}
       /\ Cached(heap'[lookup']) = {}]_vars

\* C11: a zscores call given a non-empty per-call baseline B returns z-scores
\* computed against the statistics resampled from the baseline built from B;
\* it never reuses a cache entry computed against another baseline.
C11_PerCallBaselineUsed ==
  (last.op = "zscores" /\ TruthyArg(last.arg)) =>
     /\ last.base = MakeBaseline(last.arg, emotion_lexicon, last.model, None)
     /\ last.stats = Resample(last.base, last.n)

\* ------------------------------------------- every call that may touch the baseline
\* The network formamentis_network returns (multiplex=True).
FrameNetworks == {MultiplexNetwork([k \in Kinds |-> <<<<"t", "a">>, <<"a", "b">>>>])}

\* fmn = formamentis_network(text, ...): the instance's fields are read and
\* handed to fme.get_formamentis_edgelist, none is written
FormamentisNetwork(network) ==
  /\ fmn' = network
  /\ last' = Call("formamentis_network")
  /\ UNCHANGED <<scorerVars, threadVars, ioVars, target_word, fmnt, fmnt2>>

\* fmnt = extract_word_from_formamentis(fmn, target), as a call on the instance
ExtractCall(target) ==
  /\ fmn.set
  /\ target_word' = target
  /\ fmnt' = ExtractWordFromFormamentis(fmn, target)
  /\ last' = Call("extract_word_from_formamentis")
  /\ UNCHANGED <<scorerVars, threadVars, ioVars, fmn, fmnt2>>

NextFrame ==
  \/ \E m \in ModeArgs : SetStemmingLemmatization(m)
  \/ \E b \in BaselineArgs : SetBaseline(b)
  \/ \E n \in Sizes : Emotions(n)
  \/ \E n \in Sizes, b \in ZBaselineArgs : Zscores(n, b)
  \/ \E network \in FrameNetworks : FormamentisNetwork(network)
  \/ \E target \in Targets : ExtractCall(target)

SpecFrame == Init /\ [][NextFrame]_vars

\* ------------------------------------------------------ claims, SpecFrame

EdgesOf(edges, k) == IF k \in DOMAIN edges THEN edges[k] ELSE <<>>

\* The flat network holding the concatenation of the per-kind edge lists of a
\* multiplex network.
Flatten(network) ==
  FlatNetwork(EdgesOf(network.edges, "syntactic") \o EdgesOf(network.edges, "synonyms"))

\* Every multiplex network of InitNet.
InitFlatten == InitNet /\ fmn.multiplex

\* fmnt2 = extract_word_from_formamentis(flat, target_word), flat being the
\* flattened fmn
ExtractFlattened ==
  /\ fmnt.set /\ ~fmnt2.set
  /\ fmnt2' = ExtractWordFromFormamentis(Flatten(fmn), target_word)
  /\ UNCHANGED <<scorerVars, last, threadVars, ioVars, fmn, target_word, fmnt>>

NextFlatten == Extract \/ ExtractFlattened

SpecFlatten == InitFlatten /\ [][NextFlatten]_vars

\* C13: the restriction of a multiplex network and the restriction of its
\* flattening have the same vertex set, and the union of the restricted
\* per-kind edge lists is the restricted flat edge set.
C13_CommutesWithFlattening ==
  fmnt2.set =>
    /\ fmnt.multiplex /\ ~fmnt2.multiplex
    /\ fmnt.vertices = fmnt2.vertices
    /\ UNION {Range(fmnt.edges[k]) : k \in DOMAIN fmnt.edges} = Range(fmnt2.edges)

\* C13 witness: both restrictions done on a network of both kinds, one kind
\* keeping an edge that does not contain the target and whose endpoints are
\* not both neighbours of the target within that kind.
C13_Witness ==
  /\ fmnt2.set /\ DOMAIN fmn.edges = Kinds
  /\ \E k \in Kinds : \E i \in DOMAIN fmnt.edges[k] :
       LET e == fmnt.edges[k][i]
           near == Chain(IncidentEdges(fmn.edges[k], target_word))
       IN ~TargetIn(target_word, e) /\ ~(e[1] \in near /\ e[2] \in near)

\* ---------------------------------------------- claims, SpecNet (continued)
\* The target word occurs in no edge of the network (an empty network included).
TargetAbsent(network, target) ==
  LET lists == EdgeLists(network)
  IN \A k \in DOMAIN lists : \A i \in DOMAIN lists[k] : ~TargetIn(target, lists[k][i])

\* C14: when the target word occurs in no edge, the restriction returns an
\* empty network: no vertices, no edges, and for a multiplex input exactly
\* the input's kinds as keys, each with an empty edge list.
C14_DegenerateInput ==
  (fmnt.set /\ TargetAbsent(fmn, target_word)) =>
    /\ fmnt.vertices = {}
    /\ fmnt.multiplex = fmn.multiplex
    /\ IF fmn.multiplex
       THEN /\ DOMAIN fmnt.edges = DOMAIN fmn.edges
            /\ \A k \in DOMAIN fmn.edges : fmnt.edges[k] = <<>>
       ELSE fmnt.edges = <<>>

\* C14 witness: a multiplex network with edges of both kinds, none holding
\* the target word, restricted to it.
C14_Witness ==
  /\ fmnt.set /\ fmn.multiplex /\ DOMAIN fmn.edges = Kinds
  /\ \A k \in Kinds : fmn.edges[k] # <<>>
  /\ TargetAbsent(fmn, target_word)
  /\ DOMAIN fmnt.edges = Kinds

\* ------------------------------- set_stemming_lemmatization, any argument
\* Argument values of set_stemming_lemmatization, a value that names no mode
\* included.
AnyModeArgs == ModeArgs \cup {"other"}

\* _load_dictionary(language, stem_or_lem) (Lexicon Store contract: the mode
\* is lemmatization or stemming; a bad value fails fast, spec 6 and 7).
LoadRaises(stem_or_lem_arg) == stem_or_lem_arg \notin {"lemmatization", "stemming"}

\* A switch of mode that never loads the stemmer.
LoadStemmer_Never(stem_or_lem_arg, stm) == stm

\* lines 73-74: if stem_or_lem == "stemming" and self._stemmer is None
LoadStemmer(stem_or_lem_arg, stm) ==
  IF stem_or_lem_arg = "stemming" /\ stm = None THEN STEMMER ELSE stm

\* set_stemming_lemmatization(stem_or_lem), whatever the argument: line 69
\* raises before any field is assigned when the value names no mode
SetStemmingLemmatizationAny(m) ==
  IF LoadRaises(m)
  THEN /\ last' = [Call("set_stemming_lemmatization: raised") EXCEPT !.arg = m]
       /\ UNCHANGED <<utilVars, scorerVars, threadVars>>
  ELSE /\ emotion_lexicon' = LoadDictionary(m)
       /\ idiomatic_tokens' = LoadIdiomaticTokens(m)
       /\ stem_or_lem' = m
       /\ stemmer' = LoadStemmer(m, stemmer)
       /\ last' = [Call("set_stemming_lemmatization") EXCEPT !.arg = m]
       /\ UNCHANGED <<utilVars, baseline, lookup, heap, threadVars>>

NextMode ==
  \/ \E m \in AnyModeArgs : SetStemmingLemmatizationAny(m)
  \/ \E n \in Sizes : Emotions(n)
  \/ \E n \in Sizes, b \in ZBaselineArgs : Zscores(n, b)

SpecMode == Init /\ [][NextMode]_vars

\* ------------------------------------------------------- claims, SpecMode

\* C15: the model emotions and zscores select is a loaded one, the tagger in
\* lemmatization mode and otherwise the stemmer, which is never None when it
\* is selected; and the stemmer is loaded at most once, by the first switch
\* to stemming.
C15_ModelLoaded ==
  /\ [](/\ SelectModel(stem_or_lem, stemmer) # None
        /\ SelectModel(stem_or_lem, stemmer) =
             (IF stem_or_lem = "lemmatization" THEN TAGGER ELSE STEMMER)
        /\ last.op \in {"emotions", "zscores"} =>
             last.model = SelectModel(stem_or_lem, stemmer))
  /\ [][stemmer' # stemmer =>
          /\ stemmer = None /\ stemmer' = STEMMER
          /\ stem_or_lem = "lemmatization" /\ stem_or_lem' = "stemming"]_vars

\* C15 witness: zscores has selected the stemmer, in stemming mode.
C15_Witness ==
  /\ last.op = "zscores" /\ stem_or_lem = "stemming"
  /\ last.model = STEMMER /\ stemmer = STEMMER

====
